---- MODULE Spec2Model ----
(***************************************************************************)
(* Model of the battery management system of src/code/BMS.py: the BMS      *)
(* object, the hardware it drives (ADC front end, I/O expanders, buzzer,   *)
(* relay, fan, non-volatile byte, UART) and its two entry points, the      *)
(* constructor and update().                                               *)
(*                                                                         *)
(* Units: voltages are integers in millivolts, temperatures integers in    *)
(* degrees Celsius.  meanVoltage is battVoltage / cellCount; comparisons   *)
(* with it are cross-multiplied so that they stay exact.                   *)
(* Python lists are sequences; At(l, i) is l[i] with Python's indices.     *)
(***************************************************************************)
EXTENDS Integers, Sequences, FiniteSets, TLC

VARIABLES
    mode,           \* self.mode: 0 idle, 1 charge/balance, 2 shutdown
    drain,          \* self.drain
    temps,          \* self.temps
    maxTemp,        \* self.maxTemp
    fanTrigger,     \* self.fanTrigger
    cells,          \* self.cells
    lastCells,      \* self.lastCells
    battVoltage,    \* self.battVoltage (= cellCount * self.meanVoltage)
    capacity,       \* self.capacity
    minVoltage,     \* self.minVoltage
    maxVoltage,     \* self.maxVoltage
    targetVoltage,  \* self.targetVoltage
    dV,             \* self.dV
    balTime,        \* self.balTime
    testBalCount,   \* self.testBalCount
    error,          \* self.error
    verbose,        \* self.verbose
    buz,            \* self.buz.value
    relay,          \* self.relay.value
    fan,            \* self.fan.value
    gpio,           \* mcpArr[i].gpio, the byte driven on each I/O expander
    adcAwake,       \* ADS1248 front end: awake (wakeupAll) or asleep (sleepAll)
    nvm,            \* microcontroller.nvm[0]
    tx,             \* bytes written to the UART by the last entry point
    tick            \* record of what the last entry point did and met

vars == <<mode, drain, temps, maxTemp, fanTrigger, cells, lastCells, battVoltage,
          capacity, minVoltage, maxVoltage, targetVoltage, dV, balTime,
          testBalCount, error, verbose, buz, relay, fan, gpio, adcAwake, nvm, tx, tick>>

----------------------------------------------------------------------------
(* Program constants *)

cellCount == 20
drainSlots == 24
retries == 4
NumMcp == 3
NumTmp == 4
thermalMargin == 20
deltaLimit == 50
chargeMargin == 50
confirmTicks == 4
subInterval == 8
capacityEmpty == 68000
capacityStep == 160
errorBytes == 255
bootByte == 127
DefaultMaxTemp == 80
DefaultFanTrigger == 50
DefaultMinVoltage == 3400
DefaultMaxVoltage == 4250
DefaultTargetVoltage == 3850
DefaultDV == 10
DefaultBalTime == 32

\* bound of the protocol specification
MaxChanged == 2

cellPos == <<18, 15, 12, 6, 3, 9, 0, 7, 16, 13, 10, 19, 1, 4, 20, 17, 11, 5, 2, 14>>

----------------------------------------------------------------------------
(* Python helpers *)

At(l, i) == l[i + 1]

Zeros(n) == [i \in 1..n |-> 0]

RECURSIVE SumSeq(_)
SumSeq(l) == IF l = <<>> THEN 0 ELSE l[1] + SumSeq(Tail(l))

Larger(a, b) == IF a >= b THEN a ELSE b

Smaller(a, b) == IF a <= b THEN a ELSE b

\* max(l) and min(l) of a non-empty list
RECURSIVE MaxOf(_)
MaxOf(l) == IF Len(l) = 1 THEN l[1] ELSE Larger(l[1], MaxOf(Tail(l)))

RECURSIVE MinOf(_)
MinOf(l) == IF Len(l) = 1 THEN l[1] ELSE Smaller(l[1], MinOf(Tail(l)))

\* round(n / d) for d > 0: ties go to the even neighbour
RoundHalfEven(n, d) ==
    IF 2 * (n % d) < d THEN n \div d
    ELSE IF 2 * (n % d) > d THEN (n \div d) + 1
    ELSE IF (n \div d) % 2 = 0 THEN n \div d ELSE (n \div d) + 1

\* l[a:b]
Slice(l, a, b) ==
    IF a >= Len(l) \/ a >= b THEN <<>>
    ELSE [k \in 1..((IF b < Len(l) THEN b ELSE Len(l)) - a) |-> l[a + k]]

Pow2(j) == CASE j = 0 -> 1 [] j = 1 -> 2 [] j = 2 -> 4 [] j = 3 -> 8
             [] j = 4 -> 16 [] j = 5 -> 32 [] j = 6 -> 64 [] j = 7 -> 128

----------------------------------------------------------------------------
(* Environment: what the ADCs, the temperature sensors and the host supply *)

NoFrame == [cmd |-> 0, data |-> ""]

Flat(v) == [i \in 1..cellCount |-> v]

\* 19 cells at 4.20 V and one at 3.50 V
OneLow == [i \in 1..cellCount |-> IF i = cellCount THEN 3500 ELSE 4200]

\* nineteen distinct voltages below the target and one cell near the ceiling
Ramp == [i \in 1..cellCount |-> IF i = cellCount THEN 4210 ELSE 3800 + 2 * (i - 1)]

OneOver == [i \in 1..cellCount |-> IF i = 8 THEN 4300 ELSE 3850]

OneUnder == [i \in 1..cellCount |-> IF i = 4 THEN 3300 ELSE 3850]

CellProfiles == {Flat(3850), Flat(3860), Flat(3700), OneLow, Ramp, OneOver, OneUnder}

GlitchProfiles == {OneUnder}

\* packs whose capacity has one, two and three digits: 6, 56 and 100
ProtocolProfiles == {Flat(3450), Flat(3850), Flat(4200)}

\* ADS1248.fetchAll: the 21 channel voltages, cell i wired to channel cellPos[i]
fetchAll(profile) ==
    [ch \in 1..(cellCount + 1) |->
        IF \E i \in 1..cellCount : cellPos[i] = ch - 1
        THEN profile[CHOOSE i \in 1..cellCount : cellPos[i] = ch - 1]
        ELSE 0]

\* the reads one tick can take in mode 1: j disturbed reads, then a steady pack
NoisyReads(g, j, r) == [k \in 1..retries |-> IF k <= j THEN fetchAll(g) ELSE fetchAll(r)]

ActiveReads ==
    {NoisyReads(g, j, r) : g \in GlitchProfiles, j \in {0, retries - 1}, r \in CellProfiles}

\* in mode 0 the loop reads once
IdleReads == {<<fetchAll(r)>> : r \in CellProfiles}

ReadInputs(m) == IF m = 1 THEN ActiveReads ELSE IF m = 0 THEN IdleReads ELSE {<<>>}

\* the reads of a tick with a steady pack
ProtocolReads(m) == IF m = 0 THEN {<<fetchAll(r)>> : r \in ProtocolProfiles} ELSE {<<>>}

\* tmpArr readings (already in Celsius) and microcontroller.cpu.temperature
Cool == [board |-> 30, cpu |-> 35]

TempReads == {Cool, [board |-> 90, cpu |-> 60], [board |-> 70, cpu |-> 105]}

\* the samples of one balance window of n samples: the reading t0 the tick
\* began with, and from sample j + 1 on a reading t of Temps
WindowReads(n, t0, Temps) ==
    {[k \in 1..n |-> IF k <= j THEN t0 ELSE t] : j \in {0, 1}, t \in Temps}

----------------------------------------------------------------------------
(* The BMS object and the hardware, as one record.  self.charging,          *)
(* self.balancing, self.minCell and self.maxCell are fields of the record   *)
(* that no variable keeps between ticks: update assigns minCell and maxCell *)
(* (lines 293-294) and balance assigns charging and balancing (lines        *)
(* 167-207) before anything reads them, so a tick never sees the values of  *)
(* an earlier one.                                                          *)

Self ==
    [mode |-> mode, drain |-> drain, temps |-> temps, maxTemp |-> maxTemp,
     fanTrigger |-> fanTrigger, cells |-> cells, lastCells |-> lastCells,
     battVoltage |-> battVoltage, capacity |-> capacity,
     minVoltage |-> minVoltage, maxVoltage |-> maxVoltage,
     targetVoltage |-> targetVoltage, dV |-> dV, balTime |-> balTime,
     testBalCount |-> testBalCount, error |-> error, verbose |-> verbose,
     charging |-> FALSE, balancing |-> FALSE, minCell |-> 0, maxCell |-> 0,
     buz |-> buz, relay |-> relay, fan |-> fan,
     gpio |-> gpio, adcAwake |-> adcAwake, nvm |-> nvm, tx |-> tx, tick |-> tick]

\* the Config fields and the telemetry values of the object s
Config(s) ==
    [mode |-> s.mode, maxTemp |-> s.maxTemp, fanTrigger |-> s.fanTrigger,
     minVoltage |-> s.minVoltage, maxVoltage |-> s.maxVoltage,
     targetVoltage |-> s.targetVoltage, dV |-> s.dV, balTime |-> s.balTime,
     verbose |-> s.verbose]

Telemetry(s) ==
    [cells |-> s.cells, battVoltage |-> s.battVoltage, capacity |-> s.capacity,
     temps |-> s.temps]

Snapshot(s) == [config |-> Config(s), telemetry |-> Telemetry(s)]

NoSnapshot == [config |-> <<>>, telemetry |-> <<>>]

\* the record of a tick that starts in mode m.  prior: how many ticks in a
\* row, up to this one, took the settle-confirmation branch of balance (line
\* 210); run: the same count with this tick included; balanced: the tick
\* selected cells for discharge (lines 177-205); before: the settings and
\* the telemetry when the tick reached the protocol step or returned; gate:
\* the maximum temperature sampled at line 303, if the tick got there;
\* samples: the getTemps calls of the balance window; hot: those that found
\* max(temps) > maxTemp
NewTick(m) ==
    [boot |-> FALSE, start |-> m, pending |-> FALSE, exhausted |-> FALSE,
     latched |-> FALSE, asleepRead |-> FALSE, scanBad |-> FALSE, envHot |-> FALSE,
     tripped |-> FALSE, bal |-> "none", relayOn |-> FALSE,
     polled |-> FALSE, cmd |-> NoFrame, reported |-> FALSE,
     prior |-> 0, run |-> 0, balanced |-> FALSE, before |-> NoSnapshot,
     gate |-> <<>>, samples |-> 0, hot |-> 0]

----------------------------------------------------------------------------
(* BMS.getCells *)

Clamp(c, lo, hi) == IF c < lo THEN lo ELSE IF c > hi THEN hi ELSE c

\* line 121
Capacity(bv) == Clamp(RoundHalfEven(bv - capacityEmpty, capacityStep), 0, 100)

\* lines 120-122, c being the cells just read
setTotals(s, bv) == [s EXCEPT !.battVoltage = bv, !.capacity = Capacity(bv)]

getCells(s, cellRead) ==
    setTotals([s EXCEPT !.cells = [i \in 1..cellCount |-> At(cellRead, cellPos[i])],
                        !.tick.asleepRead = @ \/ ~s.adcAwake],
              SumSeq([i \in 1..cellCount |-> At(cellRead, cellPos[i])]))

(* BMS.getTemps *)

readTemps(t) == [i \in 1..(NumTmp + 1) |-> IF i <= NumTmp THEN t.board ELSE t.cpu]

thermalShutdown(s, t) == MaxOf(readTemps(t)) > s.maxTemp + thermalMargin

\* a getTemps that forces Shutdown without sounding the alarm
getTempsSilent(s, t) ==
    IF thermalShutdown(s, t)
    THEN [s EXCEPT !.temps = readTemps(t),
                   !.fan = MaxOf(readTemps(t)) > s.fanTrigger,
                   !.mode = 2,
                   !.tick.envHot = TRUE, !.tick.tripped = TRUE]
    ELSE [s EXCEPT !.temps = readTemps(t),
                   !.fan = MaxOf(readTemps(t)) > s.fanTrigger]

getTemps(s, t) ==
    IF thermalShutdown(s, t)
    THEN [s EXCEPT !.temps = readTemps(t),
                   !.fan = MaxOf(readTemps(t)) > s.fanTrigger,
                   !.buz = TRUE, !.mode = 2,
                   !.tick.envHot = TRUE, !.tick.tripped = TRUE]
    ELSE [s EXCEPT !.temps = readTemps(t),
                   !.fan = MaxOf(readTemps(t)) > s.fanTrigger]

(* BMS.sendIO *)

RECURSIVE PackBits(_, _)
PackBits(bits, j) ==
    IF j >= Len(bits) THEN 0
    ELSE (IF At(bits, j) = 1 THEN Pow2(j) ELSE 0) + PackBits(bits, j + 1)

sendIO(s) ==
    [s EXCEPT !.gpio = [i \in 1..NumMcp |-> PackBits(Slice(s.drain, 8 * (i - 1), 8 * i), 0)]]

----------------------------------------------------------------------------
(* BMS.balance *)

\* sorted(l, key = cells[x], reverse = True): stable, so equal voltages keep
\* their order
\* an insertion that puts a cell before the cells of equal voltage
RECURSIVE InsertDescTiesFirst(_, _, _)
InsertDescTiesFirst(l, x, c) ==
    IF l = <<>> THEN <<x>>
    ELSE IF At(c, Head(l)) > At(c, x)
    THEN <<Head(l)>> \o InsertDescTiesFirst(Tail(l), x, c)
    ELSE <<x>> \o l

RECURSIVE InsertDesc(_, _, _)
InsertDesc(l, x, c) ==
    IF l = <<>> THEN <<x>>
    ELSE IF At(c, Head(l)) >= At(c, x) THEN <<Head(l)>> \o InsertDesc(Tail(l), x, c)
    ELSE <<x>> \o l

RECURSIVE SortedDesc(_, _)
SortedDesc(l, c) ==
    IF l = <<>> THEN <<>>
    ELSE InsertDesc(SortedDesc(SubSeq(l, 1, Len(l) - 1), c), l[Len(l)], c)

\* the indices i in range(cellCount) from i on with cells[i] above the target
\* (target2 is twice the target)
RECURSIVE AboveTarget(_, _, _)
AboveTarget(c, target2, i) ==
    IF i >= cellCount THEN <<>>
    ELSE (IF 2 * At(c, i) > target2 THEN <<i>> ELSE <<>>) \o AboveTarget(c, target2, i + 1)

\* a selection that takes every cell above the target
dischargeCountUncapped(toDschg) == Len(toDschg)

dischargeCount(toDschg) ==
    IF cellCount \div 2 >= Len(toDschg) THEN Len(toDschg) ELSE cellCount \div 2

\* lines 190-203: the drain list after the selection
markDrain(s, target2, chosen) ==
    [k \in 1..Len(s.drain) |->
        IF k - 1 < cellCount /\ 2 * At(s.cells, k - 1) <= target2 THEN 0
        ELSE IF (k - 1) \in chosen THEN 1
        ELSE s.drain[k]]

\* lines 198-203: the first count cells of the sorted list
firstCells(toDschg) == {At(toDschg, i) : i \in 0..(dischargeCount(toDschg) - 1)}

selectDrain(s, target2) ==
    markDrain(s, target2, firstCells(SortedDesc(AboveTarget(s.cells, target2, 0), s.cells)))

targetOutOfRange(s) == s.targetVoltage < s.minVoltage \/ s.targetVoltage > s.maxVoltage

\* a charge decision without the margin under maxVoltage
chargeDecisionNoMargin(s) ==
    \/ s.minCell < s.minVoltage
    \/ 2 * s.battVoltage < cellCount * (2 * s.targetVoltage - s.dV)

chargeDecision(s) ==
    /\ \/ s.minCell < s.minVoltage
       \/ 2 * s.battVoltage < cellCount * (2 * s.targetVoltage - s.dV)
    /\ s.maxCell < s.maxVoltage - chargeMargin

balanceDecision(s) ==
    /\ \/ s.maxCell - s.minCell > s.dV
       \/ 2 * s.battVoltage > cellCount * (2 * s.targetVoltage + s.dV)
    /\ s.minCell > s.minVoltage

\* twice the discharge target of lines 179-185
balanceTarget2(s) ==
    IF s.maxCell - s.minCell > s.dV THEN 2 * s.minCell + s.dV ELSE 2 * s.targetVoltage

\* line 229: one getTemps call of the window
sample(s, t) ==
    [getTemps(s, t) EXCEPT !.tick.samples = @ + 1,
                           !.tick.hot = @ + (IF MaxOf(readTemps(t)) > s.maxTemp THEN 1 ELSE 0)]

\* a window that keeps waiting after a hot sample
RECURSIVE monitorNoAbort(_, _, _)
monitorNoAbort(s, wt, i) ==
    IF i >= s.balTime \div subInterval THEN s
    ELSE monitorNoAbort(sample(s, At(wt, i)), wt, i + 1)

\* lines 228-233: sample i of the window
RECURSIVE monitor(_, _, _)
monitor(s, wt, i) ==
    IF i >= s.balTime \div subInterval THEN s
    ELSE IF MaxOf(readTemps(At(wt, i))) > s.maxTemp THEN sample(s, At(wt, i))
    ELSE monitor(sample(s, At(wt, i)), wt, i + 1)

\* lines 167-174
chargeStep(s) ==
    IF chargeDecision(s)
    THEN [s EXCEPT !.charging = TRUE, !.relay = TRUE, !.tick.relayOn = TRUE]
    ELSE [s EXCEPT !.charging = FALSE]

\* lines 176-207
balanceStep(s) ==
    IF balanceDecision(s)
    THEN sendIO([s EXCEPT !.balancing = TRUE, !.testBalCount = 0,
                          !.drain = selectDrain(s, balanceTarget2(s)),
                          !.tick.balanced = TRUE])
    ELSE [s EXCEPT !.balancing = FALSE]

\* lines 234-236
endWindow(s) == [s EXCEPT !.drain = Zeros(cellCount), !.relay = FALSE]

\* lines 209-236
settle(s, wt) ==
    IF ~s.balancing /\ ~s.charging
    THEN IF s.testBalCount < confirmTicks
         THEN [s EXCEPT !.testBalCount = @ + 1, !.tick.bal = "confirm",
                        !.tick.run = s.tick.prior + 1]
         ELSE [s EXCEPT !.buz = FALSE, !.mode = 0, !.testBalCount = 0,
                        !.tick.bal = "complete"]
    ELSE endWindow(monitor([s EXCEPT !.tick.bal = "window"], wt, 0))

\* a balance whose target check leaves the mode alone
balanceKeepsMode(s, wt) ==
    IF targetOutOfRange(s)
    THEN sendIO([s EXCEPT !.buz = TRUE, !.relay = FALSE,
                          !.drain = Zeros(cellCount), !.tick.bal = "badTarget"])
    ELSE settle(balanceStep(chargeStep(s)), wt)

balance(s, wt) ==
    IF targetOutOfRange(s)
    THEN sendIO([s EXCEPT !.buz = TRUE, !.relay = FALSE, !.mode = 0,
                          !.drain = Zeros(cellCount), !.tick.bal = "badTarget"])
    ELSE settle(balanceStep(chargeStep(s)), wt)

----------------------------------------------------------------------------
(* The serial protocol: lines 319-408 of update *)

\* the frames the host sends: a command byte and, for a write, its payload
ControlFrames ==
    {[cmd |-> 128, data |-> d] : d \in {"0", "1", "2"}}
    \cup {[cmd |-> 133, data |-> d] : d \in {"3.3"}}

\* the frames of every register: each write register with a payload that
\* parses and with one that does not, and each read register
ProtocolFrames ==
    {[cmd |-> 128, data |-> d] : d \in {"0", "1", "2", "abc"}}
    \cup {[cmd |-> 129, data |-> d] : d \in {"60", "abc"}}
    \cup {[cmd |-> 130, data |-> d] : d \in {"60", "abc"}}
    \cup {[cmd |-> 131, data |-> d] : d \in {"3.3", "abc"}}
    \cup {[cmd |-> 132, data |-> d] : d \in {"3.85", "abc"}}
    \cup {[cmd |-> 133, data |-> d] : d \in {"3.3", "abc"}}
    \cup {[cmd |-> 134, data |-> d] : d \in {"0", "abc"}}
    \cup {[cmd |-> 135, data |-> d] : d \in {"8", "1.5", "abc"}}
    \cup {[cmd |-> 136, data |-> d] : d \in {"0", "abc"}}
    \cup {[cmd |-> c, data |-> ""] : c \in 1..6}

\* the payloads float() accepts, with their value in thousandths
FloatLits == {"0", "1", "2", "7", "8", "60", "3.3", "3.85", "1.5"}

Milli(d) ==
    CASE d = "0" -> 0 [] d = "1" -> 1000 [] d = "2" -> 2000 [] d = "7" -> 7000
      [] d = "8" -> 8000 [] d = "60" -> 60000 [] d = "3.3" -> 3300
      [] d = "3.85" -> 3850 [] d = "1.5" -> 1500

\* the payloads int() accepts
IntLits == {"0", "1", "2", "7", "8", "60"}

\* bytes(n): n zero bytes
ZeroBytes(n) == [i \in 1..n |-> 0]

\* str(n) for an integer n >= 0, as ASCII codes
RECURSIVE StrInt(_)
StrInt(n) == IF n < 10 THEN <<48 + n>> ELSE StrInt(n \div 10) \o <<48 + (n % 10)>>

Pow10(k) == CASE k = 0 -> 1 [] k = 1 -> 10 [] k = 2 -> 100 [] k = 3 -> 1000
              [] k = 4 -> 10000 [] k = 5 -> 100000 [] k = 6 -> 1000000

\* the k-digit fraction f without its trailing zeros, at least one digit
RECURSIVE StrFrac(_, _)
StrFrac(f, k) ==
    IF k <= 1 THEN <<48 + (f % 10)>>
    ELSE IF f % 10 = 0 THEN StrFrac(f \div 10, k - 1)
    ELSE StrFrac(f \div 10, k - 1) \o <<48 + (f % 10)>>

\* str(x) for the float x = n / 10^k >= 0
StrFloat(n, k) ==
    IF k = 0 THEN StrInt(n) \o <<46, 48>>
    ELSE StrInt(n \div Pow10(k)) \o <<46>> \o StrFrac(n % Pow10(k), k)

\* "0" * (w - len(text))
Pad(text, w) == [i \in 1..(IF w > Len(text) THEN w - Len(text) ELSE 0) |-> 48]

RECURSIVE Lines(_, _, _, _)
Lines(l, k, w, i) ==
    IF i > Len(l) THEN <<>>
    ELSE StrFloat(l[i], k) \o Pad(StrFloat(l[i], k), w) \o <<10>> \o Lines(l, k, w, i + 1)

writeCommand(s, command, data) ==
    CASE command = 128 ->
            IF data = "0" THEN [s EXCEPT !.mode = 0]
            ELSE IF data = "1" THEN [s EXCEPT !.mode = 1]
            ELSE IF data = "2" THEN [s EXCEPT !.mode = 2]
            ELSE s
      [] command = 133 -> [s EXCEPT !.targetVoltage = Milli(data)]
      [] command = 129 -> [s EXCEPT !.maxTemp = Milli(data) \div 1000]
      [] command = 130 -> [s EXCEPT !.fanTrigger = Milli(data) \div 1000]
      [] command = 131 -> [s EXCEPT !.minVoltage = Milli(data)]
      [] command = 132 -> [s EXCEPT !.maxVoltage = Milli(data)]
      [] command = 134 -> [s EXCEPT !.dV = Milli(data)]
      [] command = 135 -> [s EXCEPT !.balTime = Milli(data) \div 1000]
      [] command = 136 -> [s EXCEPT !.verbose = (data # "")]
      [] OTHER -> s

\* float(data) or int(data) raises ValueError
raisesValueError(command, data) ==
    \/ command \in {129, 130, 131, 132, 133, 134} /\ data \notin FloatLits
    \/ command = 135 /\ data \notin IntLits

readCommand(s, command) ==
    CASE command = 1 ->
            [s EXCEPT !.tx = @ \o StrFloat(s.battVoltage, 3) \o Pad(StrFloat(s.battVoltage, 3), 7)]
      [] command = 2 -> [s EXCEPT !.tx = @ \o StrInt(s.capacity)]
      [] command = 3 ->
            [s EXCEPT !.tx = @ \o StrFloat(s.battVoltage * 50, 6)
                                 \o Pad(StrFloat(s.battVoltage * 50, 6), 7)]
      [] command = 4 -> [s EXCEPT !.tx = @ \o Lines(s.cells, 3, 7, 1)]
      [] command = 5 -> [s EXCEPT !.tx = @ \o Lines(s.temps, 0, 5, 1)]
      [] command = 6 -> [s EXCEPT !.tx = @ \o (IF s.mode = 2 THEN <<49>> ELSE <<48>>)]
      [] OTHER -> s

\* a protocol step that acknowledges a write with the byte 255
commandAcknowledged(s, f) ==
    IF f.cmd >= 128
    THEN IF raisesValueError(f.cmd, f.data)
         THEN [s EXCEPT !.tx = @ \o ZeroBytes(errorBytes)]
         ELSE [writeCommand(s, f.cmd, f.data) EXCEPT !.tx = @ \o <<255>>]
    ELSE readCommand(s, f.cmd)

\* lines 322-408, the frame f having been read from the buffer
command(s, f) ==
    IF f.cmd >= 128
    THEN IF raisesValueError(f.cmd, f.data)
         THEN [s EXCEPT !.tx = @ \o ZeroBytes(errorBytes)]
         ELSE writeCommand(s, f.cmd, f.data)
    ELSE readCommand(s, f.cmd)

\* lines 320-321: uart.read(1) takes the frame f waiting in the buffer, if any
Sercom(s, f) ==
    IF f = NoFrame THEN [s EXCEPT !.tick.polled = TRUE]
    ELSE command([s EXCEPT !.tick.polled = TRUE, !.tick.cmd = f], f)

----------------------------------------------------------------------------
(* BMS.update *)

\* line 252: max(dCells) > .05 or min(dCells) < -.05
unstable(s) ==
    \E i \in 1..cellCount :
        \/ s.cells[i] - s.lastCells[i] > deltaLimit
        \/ s.cells[i] - s.lastCells[i] < -deltaLimit

\* lines 246-260: read i of the retry loop
RECURSIVE measure(_, _, _)
\* lines 251-260, a being the state after the getCells of read i
validate(a, reads, i) ==
    IF a.mode = 1
    THEN IF unstable(a)
         THEN measure([a EXCEPT !.error = TRUE, !.tick.exhausted = (i + 1 = retries)],
                      reads, i + 1)
         ELSE [a EXCEPT !.error = FALSE]
    ELSE a

measure(s, reads, i) ==
    IF i >= retries THEN s ELSE validate(getCells(s, At(reads, i)), reads, i)

\* lines 261-264
\* a fault exit that does not write nvm[0]
measurementFaultNoLatch(s) ==
    IF s.error
    THEN [s EXCEPT !.buz = TRUE, !.mode = 2, !.tick.latched = TRUE]
    ELSE s

measurementFault(s) ==
    IF s.error
    THEN [s EXCEPT !.buz = TRUE, !.nvm = 1, !.mode = 2, !.tick.latched = TRUE]
    ELSE s

outOfBand(s) ==
    \E i \in 1..cellCount : s.cells[i] > s.maxVoltage \/ s.cells[i] < s.minVoltage

\* a scan that only looks at the upper limit
voltageScanUpperOnly(s) ==
    IF \E i \in 1..cellCount : s.cells[i] > s.maxVoltage
    THEN [s EXCEPT !.mode = 2, !.tick.scanBad = TRUE]
    ELSE s

\* lines 280-286
voltageScan(s) ==
    IF outOfBand(s) THEN [s EXCEPT !.mode = 2, !.tick.scanBad = TRUE] ELSE s

\* a Shutdown branch that leaves the ADCs awake
modeActionNoSleep(s, wt) ==
    IF s.mode = 1
    THEN IF MaxOf(s.temps) < s.maxTemp THEN balance(s, wt) ELSE s
    ELSE IF s.mode = 2
    THEN sendIO([s EXCEPT !.buz = FALSE, !.relay = FALSE, !.drain = Zeros(cellCount)])
    ELSE s

\* a Shutdown branch that leaves the buzzer alone
modeActionKeepAlarm(s, wt) ==
    IF s.mode = 1
    THEN IF MaxOf(s.temps) < s.maxTemp THEN balance(s, wt) ELSE s
    ELSE IF s.mode = 2
    THEN sendIO([s EXCEPT !.relay = FALSE, !.drain = Zeros(cellCount),
                          !.adcAwake = FALSE])
    ELSE s

\* lines 306-317
modeAction(s, wt) ==
    IF s.mode = 1
    THEN IF MaxOf(s.temps) < s.maxTemp THEN balance(s, wt) ELSE s
    ELSE IF s.mode = 2
    THEN sendIO([s EXCEPT !.buz = FALSE, !.relay = FALSE, !.drain = Zeros(cellCount),
                          !.adcAwake = FALSE])
    ELSE s

\* line 272
keepBaseline(s) == [s EXCEPT !.lastCells = s.cells]

\* line 238: the tick begins
enter(s) == [s EXCEPT !.tx = <<>>, !.tick = [NewTick(s.mode) EXCEPT !.prior = s.tick.run]]

\* lines 287-291, c being the state after the voltage scan; returned: update
\* has returned
afterScan(c) ==
    IF c.mode = 2 THEN [s |-> [c EXCEPT !.buz = FALSE], returned |-> TRUE]
    ELSE [s |-> c, returned |-> FALSE]

\* lines 277-291, b being the state after line 272
afterValidation(b) ==
    IF b.mode = 2 THEN [s |-> b, returned |-> TRUE]
    ELSE afterScan(voltageScan([b EXCEPT !.buz = FALSE]))

\* lines 240-291
measurePhase(s, reads) ==
    IF s.mode = 0 \/ s.mode = 1
    THEN afterValidation(keepBaseline(measurementFault(measure(sendIO(enter(s)), reads, 0))))
    ELSE [s |-> enter(s), returned |-> FALSE]

\* lines 293-304
thermalCheck(s, t) ==
    [s |-> getTemps([s EXCEPT !.minCell = MinOf(s.cells), !.maxCell = MaxOf(s.cells),
                              !.tick.gate = <<MaxOf(readTemps(t))>>], t),
     returned |-> thermalShutdown(s, t)]

\* t is what the temperature sensors report while the tick runs, sampled by
\* it or not
thermalPhase(p, t) ==
    IF p.returned \/ p.s.tick.start = 2
    THEN [p EXCEPT !.s.tick.envHot = thermalShutdown(p.s, t)]
    ELSE thermalCheck(p.s, t)

\* lines 306-317
actPhase(p, wt) ==
    IF p.returned THEN p ELSE [s |-> modeAction(p.s, wt), returned |-> FALSE]

\* lines 319-408, f being the frame waiting in the UART receive buffer when
\* the tick runs (NoFrame: none)
sercomPhase(p, f) ==
    IF p.returned
    THEN [p.s EXCEPT !.tick.pending = (f # NoFrame), !.tick.before = Snapshot(p.s)]
    ELSE Sercom([p.s EXCEPT !.tick.pending = (f # NoFrame),
                            !.tick.before = Snapshot(p.s)], f)

\* the temperature samples a tick in the state p.s can still take
WindowInputs(p, t, Temps) ==
    IF ~p.returned /\ p.s.mode = 1 /\ MaxOf(p.s.temps) < p.s.maxTemp
    THEN WindowReads(p.s.balTime \div subInterval, t, Temps)
    ELSE {<<>>}

----------------------------------------------------------------------------
(* BMS.__init__: the state a (re)start leaves, given the stored nvm byte   *)
(* and the first ADC read                                                  *)

fields(nvm0) ==
    [mode |-> 0, drain |-> Zeros(drainSlots), temps |-> Zeros(NumTmp),
     maxTemp |-> DefaultMaxTemp, fanTrigger |-> DefaultFanTrigger,
     cells |-> Zeros(cellCount), lastCells |-> Zeros(cellCount),
     battVoltage |-> 0, capacity |-> 0,
     minVoltage |-> DefaultMinVoltage, maxVoltage |-> DefaultMaxVoltage,
     targetVoltage |-> DefaultTargetVoltage, dV |-> DefaultDV,
     balTime |-> DefaultBalTime, testBalCount |-> 0, error |-> FALSE,
     verbose |-> FALSE, charging |-> FALSE, balancing |-> FALSE,
     minCell |-> 0, maxCell |-> 0, buz |-> FALSE, relay |-> FALSE,
     fan |-> FALSE, gpio |-> Zeros(NumMcp), adcAwake |-> TRUE,
     nvm |-> 0, tx |-> <<bootByte>>,
     tick |-> [NewTick(0) EXCEPT !.boot = TRUE, !.reported = (nvm0 = 1)]]

init(nvm0, cellRead) == keepBaseline(getCells(fields(nvm0), cellRead))

----------------------------------------------------------------------------
(* The state machine *)

Commit(r) ==
    /\ mode' = r.mode /\ drain' = r.drain /\ temps' = r.temps
    /\ maxTemp' = r.maxTemp /\ fanTrigger' = r.fanTrigger
    /\ cells' = r.cells /\ lastCells' = r.lastCells
    /\ battVoltage' = r.battVoltage /\ capacity' = r.capacity
    /\ minVoltage' = r.minVoltage /\ maxVoltage' = r.maxVoltage
    /\ targetVoltage' = r.targetVoltage /\ dV' = r.dV /\ balTime' = r.balTime
    /\ testBalCount' = r.testBalCount /\ error' = r.error /\ verbose' = r.verbose
    /\ buz' = r.buz /\ relay' = r.relay /\ fan' = r.fan /\ gpio' = r.gpio
    /\ adcAwake' = r.adcAwake /\ nvm' = r.nvm /\ tx' = r.tx /\ tick' = r.tick

\* the first start, the nvm byte never written
Init ==
    \E c \in IdleReads :
        \E r \in {init(0, c[1])} :
            /\ mode = r.mode /\ drain = r.drain /\ temps = r.temps
            /\ maxTemp = r.maxTemp /\ fanTrigger = r.fanTrigger
            /\ cells = r.cells /\ lastCells = r.lastCells
            /\ battVoltage = r.battVoltage /\ capacity = r.capacity
            /\ minVoltage = r.minVoltage /\ maxVoltage = r.maxVoltage
            /\ targetVoltage = r.targetVoltage /\ dV = r.dV /\ balTime = r.balTime
            /\ testBalCount = r.testBalCount /\ error = r.error /\ verbose = r.verbose
            /\ buz = r.buz /\ relay = r.relay /\ fan = r.fan /\ gpio = r.gpio
            /\ adcAwake = r.adcAwake /\ nvm = r.nvm /\ tx = r.tx /\ tick = r.tick

\* One call of update(): measurePhase, thermalPhase, actPhase and sercomPhase
\* in sequence.  reads: what the ADCs return to the successive fetchAll calls;
\* t: what the temperature sensors report when the tick runs; wt: what they
\* return to the successive getTemps calls of a balance window; f: the frame
\* waiting in the UART receive buffer, one of Frames or none.  A tick that
\* returns before line 320 does not look at the frame: one frame stands for
\* all of them there.
TickOn(Reads, Temps, Frames) ==
    \E reads \in Reads :
        \E m \in {measurePhase(Self, reads)} :
            \E t \in Temps :
                \E p \in {thermalPhase(m, t)} :
                    \E wt \in WindowInputs(p, t, Temps) :
                        \E q \in {actPhase(p, wt)} :
                            \E f \in {NoFrame} \cup
                                     (IF q.returned THEN {CHOOSE x \in Frames : TRUE}
                                      ELSE Frames) :
                                Commit(sercomPhase(q, f))

Tick(Frames) == TickOn(ReadInputs(mode), TempReads, Frames)

Update == Tick(ControlFrames)

\* the number of settings that differ from the values __init__ gives them
Changed ==
    (IF maxTemp # DefaultMaxTemp THEN 1 ELSE 0)
    + (IF fanTrigger # DefaultFanTrigger THEN 1 ELSE 0)
    + (IF minVoltage # DefaultMinVoltage THEN 1 ELSE 0)
    + (IF maxVoltage # DefaultMaxVoltage THEN 1 ELSE 0)
    + (IF targetVoltage # DefaultTargetVoltage THEN 1 ELSE 0)
    + (IF dV # DefaultDV THEN 1 ELSE 0)
    + (IF balTime # DefaultBalTime THEN 1 ELSE 0)
    + (IF verbose THEN 1 ELSE 0)

\* the host changes at most MaxChanged settings between two restarts
HostFrames ==
    IF Changed < MaxChanged THEN ProtocolFrames
    ELSE {f \in ProtocolFrames : f.cmd \notin 129..136}

\* update() in Idle or Shutdown with a steady pack, cool sensors and any frame
\* of the protocol.  A write of mode 1 is served like the others; the charge
\* cycle it starts is followed by Update, not here.
Service == mode # 1 /\ TickOn(ProtocolReads(mode), {Cool}, HostFrames)

\* a power cycle: the constructor runs again; only the nvm byte survives
Restart ==
    \E c \in IdleReads : \E r \in {init(nvm, c[1])} : Commit(r)

Next == Update \/ Restart

Spec == Init /\ [][Next]_vars

NextProtocol == Service \/ Restart

SpecProtocol == Init /\ [][NextProtocol]_vars

----------------------------------------------------------------------------
(* Properties.  Every state is one between two entry points: tick tells    *)
(* what the last one did.                                                  *)

AfterTick == ~tick.boot

ModeWrite(v) == [cmd |-> 128, data |-> v]

\* the mode a tick leaves that set the mode m and then served the protocol
ModeAfterProtocol(m) ==
    IF tick.cmd = ModeWrite("0") THEN 0
    ELSE IF tick.cmd = ModeWrite("1") THEN 1
    ELSE IF tick.cmd = ModeWrite("2") THEN 2
    ELSE m

AllFalse(l) == \A k \in DOMAIN l : l[k] = 0

RECURSIVE BitCount(_)
BitCount(b) == IF b = 0 THEN 0 ELSE (b % 2) + BitCount(b \div 2)

\* the number of discharge switches the I/O expanders drive
SwitchesOn == SumSeq([i \in DOMAIN gpio |-> BitCount(gpio[i])])

PlanCount == SumSeq([k \in DOMAIN drain |-> IF drain[k] = 1 THEN 1 ELSE 0])

\* C1, as claimed: whatever mode a tick starts in, if the temperature exceeds
\* maxTemp + 20 during the tick, the tick returns in Shutdown with the buzzer on.
C1_AnyModeThermalAlarm == AfterTick /\ tick.envHot => mode = 2 /\ buz

\* C1, amended: if a temperature sample taken by a tick exceeds maxTemp + 20,
\* the tick returns with the buzzer on and in Shutdown, unless it then consumed
\* a host write to the mode register, whose value is then the mode.
C1_SampledThermalAlarm ==
    AfterTick /\ tick.tripped => buz /\ tick.envHot /\ mode = ModeAfterProtocol(2)

C1_Witness == AfterTick /\ tick.tripped /\ tick.start = 1 /\ mode = 2 /\ buz

\* C2: a tick that begins in Active and finds all 4 reads unstable returns in
\* Shutdown with nvm[0] = 1; a restart that finds nvm[0] = 1 reports it, and
\* every restart leaves nvm[0] = 0, so the next one reports nothing.
C2_FaultLatchAndRestart ==
    /\ [](AfterTick /\ tick.start = 1 /\ tick.exhausted => mode = 2 /\ nvm = 1)
    /\ [][tick'.boot => (tick'.reported <=> nvm = 1) /\ nvm' = 0]_vars
    /\ [](tick.boot => nvm = 0)

C2_Witness == tick.boot /\ tick.reported /\ nvm = 0

\* C3, as claimed: every tick that writes nvm[0] = 1 began in Active and had
\* all 4 of its reads unstable.
C3_LatchOnlyByValidator == AfterTick /\ tick.latched => tick.start = 1 /\ tick.exhausted

\* C4: a tick that begins in Idle or Active and whose telemetry has a cell
\* outside [minVoltage, maxVoltage] returns in Shutdown without invoking
\* balance; balance only runs with every cell in band.  (Ticks that consumed
\* a write to minVoltage or maxVoltage are left out: the limits are no longer
\* those the tick scanned with.)
C4_OutOfBandShutsDown ==
    AfterTick /\ tick.cmd.cmd \notin {131, 132} =>
        /\ tick.start \in {0, 1} /\ outOfBand(Self) => mode = 2 /\ tick.bal = "none"
        /\ tick.bal # "none" => ~outOfBand(Self)

C4_Witness ==
    AfterTick /\ tick.start = 1 /\ ~tick.exhausted /\ outOfBand(Self) /\ mode = 2

\* C5: when balance is invoked with targetVoltage outside [minVoltage,
\* maxVoltage] it leaves the plan all false (also on the I/O expanders), the
\* relay open and never closed, and mode 0 (until the protocol step of the same
\* tick writes the mode).  (Ticks that consumed a write to one of the three
\* voltages are left out.)
C5_BadTargetAborts ==
    AfterTick /\ tick.bal # "none" /\ targetOutOfRange(Self)
              /\ tick.cmd.cmd \notin {131, 132, 133} =>
        /\ tick.bal = "badTarget"
        /\ AllFalse(drain) /\ AllFalse(gpio)
        /\ ~relay /\ ~tick.relayOn
        /\ mode = ModeAfterProtocol(0)

C5_Witness ==
    AfterTick /\ tick.bal = "badTarget" /\ tick.cmd = NoFrame /\ mode = 0
              /\ targetOutOfRange(Self)

\* C6: the drain plan, and the value last written to the I/O expanders, never
\* has more than cellCount / 2 = 10 entries set.
C6_DrainCap == PlanCount <= cellCount \div 2 /\ SwitchesOn <= cellCount \div 2

C6_Witness == tick.bal = "window" /\ SwitchesOn = cellCount \div 2

\* the charge condition of C7 on the tick's telemetry
ChargeCondition ==
    /\ \/ MinOf(cells) < minVoltage
       \/ 2 * battVoltage < cellCount * (2 * targetVoltage - dV)
    /\ MaxOf(cells) < maxVoltage - 50

\* C7: balance closes the relay exactly when (minCell < minVoltage or
\* meanVoltage < targetVoltage - dV/2) and maxCell < maxVoltage - 0.05; no tick
\* whose maximum cell is at or above maxVoltage - 0.05 closes it.  (Ticks that
\* consumed a write to a voltage register are left out.)
C7_ChargeDecision ==
    AfterTick /\ tick.cmd.cmd \notin {131, 132, 133, 134} =>
        /\ tick.bal \in {"confirm", "complete", "window"} => (tick.relayOn <=> ChargeCondition)
        /\ tick.relayOn => tick.bal = "window" /\ MaxOf(cells) < maxVoltage - 50

C7_Witness == AfterTick /\ tick.relayOn /\ tick.cmd = NoFrame

\* C8: a tick that begins in Shutdown and consumes no write to the mode
\* register returns in Shutdown with the relay open, the plan all false and
\* written to the I/O expanders, the ADCs asleep and the buzzer off; a tick
\* that begins in Shutdown leaves it only by a host write of 0 or 1.
C8_ShutdownHold ==
    AfterTick /\ tick.start = 2 =>
        /\ tick.cmd.cmd # 128 =>
              mode = 2 /\ ~relay /\ AllFalse(drain) /\ AllFalse(gpio) /\ ~adcAwake /\ ~buz
        /\ mode # 2 => tick.cmd \in {ModeWrite("0"), ModeWrite("1")} /\ mode = ModeAfterProtocol(2)

C8_Witness == AfterTick /\ tick.start = 2 /\ tick.cmd = NoFrame /\ mode = 2 /\ ~adcAwake

\* C9, as claimed: after a thermal fault forced Shutdown the buzzer stays on
\* in every later tick, as long as the mode is Shutdown.
C9_AlarmHeld == [][tick.tripped /\ mode = 2 /\ buz /\ ~tick'.boot /\ mode' = 2 => buz']_vars

\* C9, amended: the buzzer is on when the tick of the thermal fault returns,
\* and the next tick, which begins in Shutdown, switches it off.
C9_AlarmUntilNextTick ==
    /\ [](AfterTick /\ tick.tripped => buz)
    /\ [][tick.tripped /\ mode = 2 /\ ~tick'.boot /\ tick' # tick => ~buz']_vars

C9_Witness ==
    AfterTick /\ tick.start = 2 /\ mode = 2 /\ ~buz /\ MaxOf(temps) > maxTemp + thermalMargin

\* C10, as claimed: a tick that begins in Idle ends in Shutdown only if a cell
\* is out of band or the temperature exceeds maxTemp + 20 (or the host wrote
\* the mode in that tick).
C10_IdleNeedsNoValidation ==
    AfterTick /\ tick.start = 0 /\ mode = 2 /\ tick.cmd.cmd # 128 =>
        tick.scanBad \/ tick.tripped

\* C11, as claimed: balance completes (mode back to Idle) only in a tick that
\* neither charges nor balances and follows 4 ticks in a row that took the
\* settle-confirmation branch; and the confirmation counter is 0 after a tick
\* that charged or balanced, and whenever the mode is not Active.
C11_SettleConfirmation ==
    AfterTick =>
        /\ tick.bal = "complete" => tick.prior >= confirmTicks
        /\ tick.bal = "window" \/ mode # 1 => testBalCount = 0

\* the discharge switch of cell k is on: bit k % 8 of I/O expander k // 8
Driven(k) == (gpio[(k \div 8) + 1] \div Pow2(k % 8)) % 2 = 1

\* twice the discharge target a tick with these cells and settings chooses
TickTarget2 ==
    IF MaxOf(cells) - MinOf(cells) > dV THEN 2 * MinOf(cells) + dV ELSE 2 * targetVoltage

CellsAboveTarget == {k \in 0..(cellCount - 1) : 2 * At(cells, k) > TickTarget2}

\* cell i comes before cell j by voltage descending, ties by ascending index
Before(i, j) == At(cells, i) > At(cells, j) \/ (At(cells, i) = At(cells, j) /\ i < j)

\* the first min(10, n) of the n cells above the target in that order
FirstTen ==
    {k \in CellsAboveTarget :
        Cardinality({j \in CellsAboveTarget : Before(j, k)}) < cellCount \div 2}

\* C12: in a tick that balances, the cells whose discharge switch is driven are
\* exactly the first min(10, n) of the n cells strictly above the target, by
\* voltage descending and ties by ascending index; no other slot is driven; a
\* selected cell is never below an unselected one, and with dV > 0 and a
\* spread above dV the minimum cell is not selected.  (Ticks that consumed a
\* write to targetVoltage or dV are left out.)
C12_SelectionOrder ==
    AfterTick /\ tick.balanced /\ tick.cmd.cmd \notin {133, 134} =>
        /\ {k \in 0..(drainSlots - 1) : Driven(k)} = FirstTen
        /\ \A i \in FirstTen : \A j \in (0..(cellCount - 1)) \ FirstTen :
              At(cells, i) >= At(cells, j)
        /\ dV > 0 /\ MaxOf(cells) - MinOf(cells) > dV =>
              \A i \in FirstTen : At(cells, i) > MinOf(cells)

C12_Witness ==
    /\ AfterTick /\ tick.balanced /\ tick.cmd = NoFrame
    /\ Cardinality(FirstTen) = cellCount \div 2
    /\ \E i \in FirstTen : \E j \in CellsAboveTarget \ FirstTen : At(cells, i) = At(cells, j)

\* the tick consumed a write whose payload is not a value of the register's type
UnparsableWrite ==
    /\ tick.cmd.cmd \in 128..136
    /\ tick.cmd.data = "abc" \/ (tick.cmd.cmd = 135 /\ tick.cmd.data = "1.5")

ParsedWrite == tick.cmd.cmd \in 128..136 /\ ~UnparsableWrite

\* C13, as claimed: a write whose payload does not parse is answered with
\* exactly one byte of value 255 and changes no Config field.
C13_ParseErrorSentinel ==
    AfterTick /\ UnparsableWrite => tx = <<255>> /\ Config(Self) = tick.before.config

\* the settings a parsed write leaves: those before it with the addressed one
\* replaced by the value of the payload
AddressedOnly ==
    CASE tick.cmd.cmd = 128 ->
            [tick.before.config EXCEPT !.mode =
                IF tick.cmd.data = "0" THEN 0 ELSE IF tick.cmd.data = "1" THEN 1 ELSE 2]
      [] tick.cmd = [cmd |-> 129, data |-> "60"] -> [tick.before.config EXCEPT !.maxTemp = 60]
      [] tick.cmd = [cmd |-> 130, data |-> "60"] -> [tick.before.config EXCEPT !.fanTrigger = 60]
      [] tick.cmd = [cmd |-> 131, data |-> "3.3"] ->
            [tick.before.config EXCEPT !.minVoltage = 3300]
      [] tick.cmd = [cmd |-> 132, data |-> "3.85"] ->
            [tick.before.config EXCEPT !.maxVoltage = 3850]
      [] tick.cmd = [cmd |-> 133, data |-> "3.3"] ->
            [tick.before.config EXCEPT !.targetVoltage = 3300]
      [] tick.cmd = [cmd |-> 134, data |-> "0"] -> [tick.before.config EXCEPT !.dV = 0]
      [] tick.cmd = [cmd |-> 135, data |-> "8"] -> [tick.before.config EXCEPT !.balTime = 8]
      [] tick.cmd.cmd = 136 -> [tick.before.config EXCEPT !.verbose = TRUE]

C16_CapacityTwoChars ==
    AfterTick /\ tick.cmd.cmd = 2 =>
        /\ Len(tx) = 2
        /\ capacity < 10 => tx = <<48 + capacity, 48>>
        /\ capacity \in 10..99 => tx = <<48 + (capacity \div 10), 48 + (capacity % 10)>>

\* C15, as claimed: every tick polls the serial port, and a command waiting
\* in the receive buffer is consumed by the tick.
C15_EveryTickServes ==
    AfterTick => tick.polled /\ (tick.pending => tick.cmd # NoFrame)

\* C17, as claimed: the drain plan always has 24 slots, and slots 20..23 are
\* false.
C17_DrainSlots ==
    Len(drain) = drainSlots /\ \A k \in (cellCount + 1)..drainSlots : drain[k] = 0

\* the tick reached line 303 and sampled a maximum temperature at or above
\* maxTemp
GateClosed == tick.gate # <<>> /\ tick.gate[1] >= maxTemp

\* the two halves of C18 that hold as claimed: balance is invoked only in a
\* tick that began in Active and sampled a maximum temperature below maxTemp,
\* a tick that did not turns no relay or drain output on; and a balance window
\* takes no sample after one above maxTemp, and ends with the plan cleared and
\* the relay open
GatedAndAborted ==
    /\ tick.bal # "none" => tick.start = 1 /\ tick.gate # <<>> /\ tick.gate[1] < maxTemp
    /\ tick.start = 1 /\ GateClosed =>
          tick.bal = "none" /\ ~tick.relayOn /\ ~relay /\ AllFalse(gpio)
    /\ tick.hot <= 1
    /\ tick.hot = 1 => MaxOf(temps) > maxTemp
    /\ tick.samples > 0 => tick.bal = "window" /\ AllFalse(drain) /\ ~relay
    /\ tick.bal = "window" /\ tick.hot = 0 => tick.samples = balTime \div subInterval

\* C18, as claimed: as above, and a tick that began in Active and sampled a
\* maximum temperature at or above maxTemp leaves the mode Active (the mode
\* the protocol step of the tick then writes apart).
C18_GateKeepsActive ==
    AfterTick /\ tick.cmd.cmd \notin {129, 135} =>
        /\ GatedAndAborted
        /\ tick.start = 1 /\ GateClosed => mode = ModeAfterProtocol(1)

\* C18, amended: as above, and such a tick leaves the mode Active unless the
\* sample exceeds maxTemp + 20, which forces Shutdown.
C18_ThermalGating ==
    AfterTick /\ tick.cmd.cmd \notin {129, 135} =>
        /\ GatedAndAborted
        /\ tick.start = 1 /\ GateClosed =>
              IF tick.gate[1] > maxTemp + thermalMargin
              THEN mode = 2 /\ tick.tripped
              ELSE mode = ModeAfterProtocol(1)

C18_Witness ==
    /\ AfterTick /\ tick.bal = "window" /\ tick.samples = 2 /\ tick.hot = 1
    /\ tick.gate[1] < maxTemp /\ AllFalse(drain) /\ ~relay

\* C19, as claimed: whenever update returns, the I/O expanders hold the
\* current drain plan.
C19_OutputsFollowPlan == AfterTick => gpio = sendIO(Self).gpio

\* C20, as claimed: no tick reads the cells while the ADC front end is asleep.
C20_ReadsAwake == ~tick.asleepRead

====
